---- MODULE Spec2Model ----
(***************************************************************************)
(* Model of the generate / evaluate / refine loop of version1.py           *)
(* (generate_high_quality_content, evaluate_content, get_feedback) and of  *)
(* the part of main that consumes the loop's return value.                 *)
(*                                                                         *)
(* The language model behind writer / seo_reviewer / ethics_reviewer is an *)
(* oracle: every generate_reply call is a nondeterministic choice among a  *)
(* small set of replies, or a raised exception.                            *)
(*                                                                         *)
(* Texts the program only compares or copies (the generated content, the   *)
(* reviewers' comments) are TLA+ strings.  A rating reply is parsed by the *)
(* program, so it is a sequence of one-character strings and float() is    *)
(* modelled on it character by character.                                  *)
(*                                                                         *)
(* Scores: the ratings of the model are integers, and an overall score     *)
(* (a + b + c) / 3 is kept in thirds of a percent, i.e. as a + b + c, so   *)
(* that it stays an integer; 95 percent is Thirds(95) = 285.               *)
(***************************************************************************)
EXTENDS Integers, Sequences, FiniteSets, TLC

VARIABLES
    pc,               \* position in generate_high_quality_content / main
    attempt,          \* version1.py:106
    past_attempts,    \* version1.py:107
    best_content,     \* version1.py:108
    best_score,       \* version1.py:109 (thirds of a percent)
    content,          \* version1.py:110, 133
    score_replies,    \* the three raw rating replies of lines 141-143
    relevance_score,  \* version1.py:141
    engagement_score, \* version1.py:142
    ethics_score,     \* version1.py:143
    overall_score,    \* version1.py:144 (thirds of a percent)
    feedback,         \* version1.py:147, 149
    st_messages,      \* st.error / st.warning / st.toast messages shown
    result,           \* the tuple returned by generate_high_quality_content
    error,            \* the exception that left the program, or "none"
    final_content,    \* main: high_quality_content, version1.py:215
    final_score,      \* main: score, version1.py:215
    feedback_attempt, \* history: the index of the attempt `feedback` was built for
    rating_calls,     \* history: number of rating calls issued (line 69)
    review_calls,     \* history: the calls issued to the two reviewers
                      \* (lines 81-86), as <<agent, content in the prompt>>
    cycle_index,      \* history: `attempt` in the latest cycle begun (line 113)
    repeat_cycles,    \* consecutive loop cycles that ended in `continue` (line 139)
    top               \* history: <<content, overall score>> of the earliest
                      \* attempt with the highest overall score; <<>> before
                      \* the first attempt is scored

\* contentcreator.py, the interactive variant
VARIABLES
    session,          \* st.session_state, contentcreator.py:303-320
    widgets,          \* the radios and buttons on the page after the last run
    trace             \* history: the language-model calls of the last run

vars == <<pc, attempt, past_attempts, best_content, best_score, content,
          score_replies, relevance_score, engagement_score, ethics_score,
          overall_score, feedback, st_messages, result, error,
          final_content, final_score, feedback_attempt, rating_calls,
          review_calls, cycle_index, repeat_cycles, top,
          session, widgets, trace>>

----------------------------------------------------------------------------
(* Bounds and program constants *)

\* cap on the number of consecutive cycles that end in `continue`; the code
\* has none
MaxRepeatCycles == 2

max_attempts == 3

\* the literal 95 of line 163
QualityThreshold == 95

\* the value returned by evaluate_content on ValueError (line 74)
DefaultScore == 50

\* the literal 2 of line 146
LastFeedbackAttempt == 2

Thirds(x) == 3 * x

Range(s) == {s[i] : i \in DOMAIN s}

----------------------------------------------------------------------------
(* The oracle's replies *)

\* the distinct contents the writer produces in a run, in the order of their
\* first appearance; "" stands for a reply without content
Contents == <<"A", "B", "C">>
NoContent == ""

\* replies of the writer to a rating prompt (the value of `score`, line 70)
RatingReplies ==
    { <<"1","0","0">>,
      <<" ","8","5","\n">>,
      <<"0">>,
      <<"-","5">>,
      <<"N","/","A">> }

\* rating replies used inside get_feedback (lines 77-79)
ReportRatingReplies == { <<"1","0","0">>, <<"N","/","A">> }

\* replies of the two reviewers
ReviewReplies == {"review"}

Whitespace == {" ", "\n", "\t"}

Digit == ("0" :> 0) @@ ("1" :> 1) @@ ("2" :> 2) @@ ("3" :> 3) @@ ("4" :> 4) @@
         ("5" :> 5) @@ ("6" :> 6) @@ ("7" :> 7) @@ ("8" :> 8) @@ ("9" :> 9)

----------------------------------------------------------------------------
(* evaluate_content, lines 67-74 *)

RECURSIVE lstrip(_)
lstrip(s) ==
    IF s # <<>> /\ Head(s) \in Whitespace THEN lstrip(Tail(s)) ELSE s

RECURSIVE rstrip(_)
rstrip(s) ==
    IF s # <<>> /\ s[Len(s)] \in Whitespace
    THEN rstrip(SubSeq(s, 1, Len(s) - 1))
    ELSE s

\* str.strip()
strip(s) == rstrip(lstrip(s))

RECURSIVE DigitsValue(_)
DigitsValue(s) ==
    IF s = <<>> THEN 0
    ELSE 10 * DigitsValue(SubSeq(s, 1, Len(s) - 1)) + Digit[s[Len(s)]]

AllDigits(s) == s # <<>> /\ \A i \in DOMAIN s : s[i] \in DOMAIN Digit

\* float(text) on texts made of whitespace, a sign and decimal digits:
\* [ok |-> FALSE] is ValueError.  (Fractions, exponents, "nan", "inf" are
\* not among the replies of the model.)
float(text) ==
    LET t == strip(text)
        signed == t # <<>> /\ Head(t) \in {"-", "+"}
        body == IF signed THEN Tail(t) ELSE t
    IN  IF AllDigits(body)
        THEN [ok |-> TRUE,
              val |-> IF signed /\ Head(t) = "-"
                      THEN 0 - DigitsValue(body) ELSE DigitsValue(body)]
        ELSE [ok |-> FALSE, val |-> 0]

\* a variant that returns 0.0 instead of 50.0 on ValueError
evaluate_content_zero_default(score) ==
    IF float(strip(score)).ok THEN float(strip(score)).val ELSE 0

\* try: return float(score.strip())  except ValueError: return 50.0
evaluate_content(score) ==
    IF float(strip(score)).ok THEN float(strip(score)).val ELSE DefaultScore

\* evaluate_content on every reply of the model, computed once
Score == [r \in RatingReplies \cup ReportRatingReplies |-> evaluate_content(r)]

----------------------------------------------------------------------------
(* Exceptions: what was raised, and by the call to which agent *)

NoError == [exc |-> "none", by |-> "none"]

\* generate_reply of an agent fails (no try/except around any call)
OracleError(agent) == [exc |-> "OracleError", by |-> agent]

\* line 70: a rating reply without "content" and without "choices"
KeyError == [exc |-> "KeyError", by |-> "writer"]

\* line 215: unpacking a tuple that does not have two elements
ValueError == [exc |-> "ValueError", by |-> "main"]

\* `feedback` before its first assignment
Unbound == [kind |-> "unbound"]

\* line 149
FinalMarker == [kind |-> "final"]

\* the f-string of lines 87-102: the table of scores and the two comments
evaluation_table(rel, eng, eth, seo, ethics) ==
    [kind |-> "report",
     relevance_score |-> rel, engagement_score |-> eng, ethics_score |-> eth,
     overall_score |-> rel + eng + eth,
     seo_feedback |-> seo, ethics_feedback |-> ethics]

loop_vars == <<attempt, past_attempts, best_content, best_score, content,
               score_replies, relevance_score, engagement_score, ethics_score,
               overall_score, feedback, feedback_attempt>>
call_vars == <<rating_calls, review_calls>>
main_vars == <<final_content, final_score>>
ghost_vars == <<repeat_cycles, top>>
ui_vars == <<session, widgets, trace>>
v1_vars == <<pc, loop_vars, call_vars, main_vars, ghost_vars, cycle_index,
             st_messages, result, error>>

StError == "error: Failed to generate content."
StWarning == "warning: The AI is repeating itself."
StToast == "toast: Max attempts reached."

----------------------------------------------------------------------------
(* contentcreator.py (lines 208-439): the interactive variant.             *)
(* Streamlit runs main from top to bottom once for every user event: a     *)
(* click on a button that the previous run rendered (st.button is then     *)
(* True in that run) or a change of a radio.  `session` is                 *)
(* st.session_state (with st.session_state.state flattened into it),       *)
(* `widgets` is the page the last run left behind, and `trace` records     *)
(* what the last run did with the language model.                          *)

\* the categories the user selects among ("others" and its text input are
\* not part of the model)
Categories == {"Technology", "Business"}

\* NewsItem(title, category), lines 226-229
NewsItem(title, category) == [title |-> title, category |-> category]

\* Python's None for selected_news
None == [title |-> "", category |-> ""]

\* num_articles=5, line 263
NumArticles == 5

\* getgooglenews_by_category, lines 243-250: a NewsItem of the category for
\* each of the first num_articles entries of the feed; `entries` are the
\* titles of feed.entries
getgooglenews_by_category(entries, category, num_articles) ==
    [i \in 1..(IF Len(entries) < num_articles THEN Len(entries)
               ELSE num_articles) |-> NewsItem(entries[i], category)]

\* what getgooglenews_by_category returns to main for the feeds the
\* interactive model draws from: an empty feed and one of two entries
NewsFeeds(category) ==
    { getgooglenews_by_category(entries, category, NumArticles) :
          entries \in { <<>>, <<"t1", "t2">> } }

\* llm.invoke raises
Raised == "<exception>"

\* response.content of the creator's call (line 286-287)
CreatorReplies == {"draft"}

\* response.content of the reviewer's call (lines 294-295)
ReviewerReplies == {"feedback1", "feedback2"}

\* the model follows at most this many calls of the creator that raise
\* between two "Show topics"
MaxFailedCalls == 2

\* no call to the reviewer in the run
NoReply == "<no call>"

\* no call to the creator in the run
NoPrompt == [title |-> "", feedback |-> ""]

\* lines 304-320
InitSession ==
    [selected_category |-> "",
     news_items |-> <<>>,
     selected_news |-> None,
     content_draft |-> "",
     review_feedback |-> "",
     feedback_count |-> 0,
     feedback_satisfactory |-> FALSE,
     last_feedback |-> "",
     news_fetched |-> FALSE,
     content_generated |-> FALSE,
     feedback_generated |-> FALSE,
     content_generation_count |-> 0]

\* the page after the first run of main: the category radio on its first
\* option and the "Show topics" button
InitWidgets ==
    [category_radio |-> "Technology",
     article_radio |-> "",
     article_options |-> <<>>,
     buttons |-> {"show"}]

\* creator_invocations: calls of contentcreator_agent since the last
\* "Show topics", the ones that raised included
InitTrace ==
    [creator_calls |-> 0,       \* drafts obtained since the last "Show topics"
     creator_invocations |-> 0,
     creator_prompt |-> NoPrompt,
     reviewer_reply |-> NoReply,
     fetch |-> "none",          \* fetchnews_for_categoryagent in the run:
                                \* "none", "returned early" or "fetched"
     fetched |-> <<>>]          \* what getgooglenews_by_category returned

----------------------------------------------------------------------------
InitLoop ==
    /\ pc = "loop"
    /\ attempt = 0
    /\ past_attempts = <<>>
    /\ best_content = ""
    /\ best_score = 0
    /\ content = ""
    /\ score_replies = <<>>
    /\ relevance_score = 0
    /\ engagement_score = 0
    /\ ethics_score = 0
    /\ overall_score = 0
    /\ feedback = Unbound
    /\ st_messages = {}
    /\ result = <<>>
    /\ error = NoError
    /\ final_content = ""
    /\ final_score = 0
    /\ feedback_attempt = -1
    /\ rating_calls = 0
    /\ review_calls = <<>>
    /\ cycle_index = -1
    /\ repeat_cycles = 0
    /\ top = <<>>

Init ==
    /\ InitLoop
    /\ session = InitSession
    /\ widgets = InitWidgets
    /\ trace = InitTrace

----------------------------------------------------------------------------
(* generate_high_quality_content, lines 105-168 *)

\* line 112
LoopCondition == attempt < max_attempts

\* the function is left by `return` or by an exception: its frame, and with
\* it every local variable, is discarded
FrameDiscarded ==
    /\ attempt' = 0
    /\ past_attempts' = <<>>
    /\ best_content' = ""
    /\ best_score' = 0
    /\ content' = ""
    /\ score_replies' = <<>>
    /\ relevance_score' = 0
    /\ engagement_score' = 0
    /\ ethics_score' = 0
    /\ overall_score' = 0
    /\ feedback' = Unbound
    /\ feedback_attempt' = -1

\* the topic passed to generate_high_quality_content
Topic == "topic"

\* lines 114-131: the prompt of the next generation call
generation_prompt ==
    IF attempt > 0
    THEN [kind |-> "refine", topic |-> Topic, content |-> content,
          feedback |-> feedback]
    ELSE [kind |-> "write", topic |-> Topic]

\* line 146 with the report skipped for every attempt
wants_feedback_never(a) == FALSE

\* line 146
wants_feedback(a) == a < LastFeedbackAttempt

\* lines 81-86 with the two reviewers called in the other order
critique_calls_swapped(c) == << <<"ethics_reviewer", c>>, <<"seo_reviewer", c>> >>

\* lines 81-86: the calls get_feedback issues to the reviewers for content c
critique_calls(c) == << <<"seo_reviewer", c>>, <<"ethics_reviewer", c>> >>

\* the k-th distinct content of a run is Contents[k]: contents are opaque
\* to the program, which only compares them
NewContent(past) == Contents[Len(past) + 1]

\* lines 137-140 with the history recorded even for a repeated content
history_append_always(past, c) == Append(past, c)

\* lines 137-140: the history after a generated content c
history_after(past, c) ==
    IF c \in Range(past) THEN past ELSE Append(past, c)

\* lines 112-133: the writer's generate_reply raises
GenerateRaises ==
    /\ pc = "loop" /\ LoopCondition
    /\ pc' = "raised"
    /\ error' = OracleError("writer")
    /\ cycle_index' = attempt
    /\ FrameDiscarded
    /\ UNCHANGED <<main_vars, call_vars, ghost_vars, st_messages, result>>
    /\ UNCHANGED ui_vars

\* lines 133-136: the reply has no content
GenerateFails ==
    /\ pc = "loop" /\ LoopCondition
    /\ st_messages' = st_messages \cup {StError}
    /\ result' = <<"", "", 0>>
    /\ pc' = "returned"
    /\ cycle_index' = attempt
    /\ FrameDiscarded
    /\ UNCHANGED <<error, main_vars, call_vars, ghost_vars>>
    /\ UNCHANGED ui_vars

\* lines 137-139: the content was generated before; `continue`
GenerateRepeats ==
    /\ pc = "loop" /\ LoopCondition
    /\ repeat_cycles < MaxRepeatCycles
    /\ \E c \in Range(past_attempts) :
          /\ content' = c
          /\ past_attempts' = history_after(past_attempts, c)
    /\ st_messages' = st_messages \cup {StWarning}
    /\ repeat_cycles' = repeat_cycles + 1
    /\ cycle_index' = attempt
    /\ pc' = "loop"
    /\ UNCHANGED <<attempt, best_content, best_score, score_replies,
                   relevance_score, engagement_score, ethics_score,
                   overall_score, feedback, feedback_attempt, result, error,
                   main_vars, call_vars, top>>
    /\ UNCHANGED ui_vars

\* lines 133, 140: a new content is recorded
GenerateNew ==
    /\ pc = "loop" /\ LoopCondition
    /\ Len(past_attempts) < Len(Contents)
    /\ content' = NewContent(past_attempts)
    /\ past_attempts' = history_after(past_attempts, content')
    /\ repeat_cycles' = 0
    /\ cycle_index' = attempt
    /\ pc' = "eval"
    /\ UNCHANGED <<attempt, best_content, best_score, score_replies,
                   relevance_score, engagement_score, ethics_score,
                   overall_score, feedback, feedback_attempt, st_messages,
                   result, error, main_vars, call_vars, top>>
    /\ UNCHANGED ui_vars

\* lines 141-149: the three rating calls, their mean, and the report of
\* get_feedback (lines 76-103) or the fixed marker
Evaluate ==
    /\ pc = "eval"
    /\ \E r1, r2, r3 \in RatingReplies :
          /\ score_replies' = <<r1, r2, r3>>
          /\ relevance_score' = Score[r1]
          /\ engagement_score' = Score[r2]
          /\ ethics_score' = Score[r3]
          /\ overall_score' = relevance_score' + engagement_score'
                                + ethics_score'
    /\ IF wants_feedback(attempt)
       THEN /\ \E f1, f2, f3 \in ReportRatingReplies,
                  seo, ethics \in ReviewReplies :
                   feedback' = evaluation_table(Score[f1], Score[f2],
                                                Score[f3], seo, ethics)
            /\ rating_calls' = rating_calls + 6
            /\ review_calls' = review_calls \o critique_calls(content)
       ELSE /\ feedback' = FinalMarker
            /\ rating_calls' = rating_calls + 3
            /\ review_calls' = review_calls
    /\ feedback_attempt' = attempt
    /\ top' = IF top = <<>> \/ overall_score' > top[2]
              THEN <<content, overall_score'>> ELSE top
    /\ pc' = "decide"
    /\ UNCHANGED <<attempt, past_attempts, best_content, best_score, content,
                   st_messages, result, error, main_vars, repeat_cycles,
                   cycle_index>>
    /\ UNCHANGED ui_vars

\* lines 141-143: the writer's generate_reply raises in a rating call of
\* the loop, or its reply has neither "content" nor "choices" (line 70)
EvaluateRaises ==
    /\ pc = "eval"
    /\ \E e \in {OracleError("writer"), KeyError} : error' = e
    /\ \E k \in 1..3 : rating_calls' = rating_calls + k
    /\ pc' = "raised"
    /\ FrameDiscarded
    /\ UNCHANGED <<main_vars, ghost_vars, st_messages, result, review_calls,
                   cycle_index>>
    /\ UNCHANGED ui_vars

\* lines 146-147, get_feedback lines 77-86: a call of one of the three
\* agents raises while the report is built (no try/except)
GetFeedbackRaises ==
    /\ pc = "eval" /\ wants_feedback(attempt)
    /\ \/ /\ error' = OracleError("writer")
          /\ \E k \in 1..3 : rating_calls' = rating_calls + 3 + k
          /\ review_calls' = review_calls
       \/ /\ error' = OracleError("seo_reviewer")
          /\ rating_calls' = rating_calls + 6
          /\ review_calls' = review_calls
                               \o SubSeq(critique_calls(content), 1, 1)
       \/ /\ error' = OracleError("ethics_reviewer")
          /\ rating_calls' = rating_calls + 6
          /\ review_calls' = review_calls \o critique_calls(content)
    /\ pc' = "raised"
    /\ FrameDiscarded
    /\ UNCHANGED <<main_vars, ghost_vars, st_messages, result, cycle_index>>
    /\ UNCHANGED ui_vars

\* line 160 with the comparison dropped: the latest attempt always wins
improves_always(overall, best) == TRUE

\* line 160 with >= instead of >
improves_or_ties(overall, best) == overall >= best

\* line 160
improves(overall, best) == overall > best

\* line 163 with > instead of >=
quality_met_strict(overall) == overall > Thirds(QualityThreshold)

\* line 163
quality_met(overall) == overall >= Thirds(QualityThreshold)

\* lines 160-166
Decide ==
    /\ pc = "decide"
    /\ IF improves(overall_score, best_score)
       THEN best_content' = content /\ best_score' = overall_score
       ELSE UNCHANGED <<best_content, best_score>>
    /\ IF quality_met(overall_score)
       THEN pc' = "after_loop" /\ UNCHANGED attempt
       ELSE pc' = "loop" /\ attempt' = attempt + 1
    /\ UNCHANGED <<past_attempts, content, score_replies, relevance_score,
                   engagement_score, ethics_score, overall_score, feedback,
                   feedback_attempt, st_messages, result, error, main_vars,
                   call_vars, cycle_index, ghost_vars>>
    /\ UNCHANGED ui_vars

\* line 112: the loop condition is false
LoopExit ==
    /\ pc = "loop" /\ ~LoopCondition
    /\ pc' = "after_loop"
    /\ UNCHANGED <<loop_vars, main_vars, call_vars, cycle_index, ghost_vars,
                   st_messages, result, error>>
    /\ UNCHANGED ui_vars

\* lines 167-168
Return ==
    /\ pc = "after_loop"
    /\ st_messages' = st_messages \cup {StToast}
    /\ result' = <<best_content, best_score>>
    /\ pc' = "returned"
    /\ FrameDiscarded
    /\ UNCHANGED <<main_vars, error, call_vars, cycle_index, ghost_vars>>
    /\ UNCHANGED ui_vars

----------------------------------------------------------------------------
(* main, lines 214-220 *)

\* line 215: high_quality_content, score = generate_high_quality_content(...)
MainUnpack ==
    /\ pc = "returned" /\ Len(result) = 2
    /\ final_content' = result[1]
    /\ final_score' = result[2]
    /\ pc' = "done"
    /\ UNCHANGED <<loop_vars, st_messages, result, error, call_vars,
                   cycle_index, ghost_vars>>
    /\ UNCHANGED ui_vars

\* line 215: the tuple does not have two elements
MainUnpackRaises ==
    /\ pc = "returned" /\ Len(result) # 2
    /\ error' = ValueError
    /\ pc' = "raised"
    /\ UNCHANGED <<loop_vars, main_vars, st_messages, result, call_vars,
                   cycle_index, ghost_vars>>
    /\ UNCHANGED ui_vars

Next ==
    \/ GenerateRaises
    \/ GenerateFails
    \/ GenerateRepeats
    \/ GenerateNew
    \/ Evaluate
    \/ EvaluateRaises
    \/ GetFeedbackRaises
    \/ Decide
    \/ LoopExit
    \/ Return
    \/ MainUnpack
    \/ MainUnpackRaises

Spec == Init /\ [][Next]_vars

TypeOK ==
    /\ pc \in {"loop", "eval", "decide", "after_loop", "returned",
                "done", "raised"}
    /\ attempt \in 0..max_attempts
    /\ Range(past_attempts) \subseteq Range(Contents)
    /\ content \in Range(Contents) \cup {NoContent}
    /\ repeat_cycles \in 0..MaxRepeatCycles

----------------------------------------------------------------------------
(* main of contentcreator.py, lines 297-436 *)

\* [item for item in news_items if item.category == category]
RECURSIVE OfCategory(_, _)
OfCategory(items, category) ==
    IF items = <<>> THEN <<>>
    ELSE IF Head(items).category = category
         THEN <<Head(items)>> \o OfCategory(Tail(items), category)
         ELSE OfCategory(Tail(items), category)

\* [item for item in news_items if item.category != category]
RECURSIVE NotOfCategory(_, _)
NotOfCategory(items, category) ==
    IF items = <<>> THEN <<>>
    ELSE IF Head(items).category # category
         THEN <<Head(items)>> \o NotOfCategory(Tail(items), category)
         ELSE NotOfCategory(Tail(items), category)

\* line 266 without the filter on the category
fetchnews_for_categoryagent_keeps_all(state, fetched) ==
    IF state.selected_category = "" THEN state
    ELSE [state EXCEPT !.news_items = state.news_items \o fetched]

\* fetchnews_for_categoryagent, lines 260-268; `fetched` is what
\* getgooglenews_by_category returns
fetchnews_for_categoryagent(state, fetched) ==
    IF state.selected_category = "" THEN state
    ELSE [state EXCEPT !.news_items =
              NotOfCategory(state.news_items, state.selected_category)
                  \o fetched]

\* the longest feed the model draws
MaxEntries == 6

\* the titles of feed.entries (line 248): feeds of up to MaxEntries entries
\* whose titles alternate
FeedEntries ==
    { [i \in 1..n |-> IF (i + k) % 2 = 0 THEN "t1" ELSE "t2"] :
          n \in 0..MaxEntries, k \in 0..1 }

\* the news_items fetchnews_for_categoryagent leaves behind: for each
\* category fetched so far, the items of its last fetch
StoredNews ==
    { getgooglenews_by_category(a, c[1], NumArticles)
          \o getgooglenews_by_category(b, c[2], NumArticles) :
        a \in FeedEntries, b \in FeedEntries,
        c \in { p \in Categories \X Categories : p[1] # p[2] } }

\* the states fetchnews_for_categoryagent is applied to: no category
\* selected yet (lines 304-308), or a selected category and stored news
FetchInputs ==
    {InitSession}
        \cup { [InitSession EXCEPT !.selected_category = c,
                                   !.news_items = items] :
                  c \in Categories, items \in StoredNews }

InitFetch ==
    /\ InitLoop
    /\ session \in FetchInputs
    /\ widgets = InitWidgets
    /\ trace = InitTrace

\* the workflow node applies fetchnews_for_categoryagent to the state
\* (lines 260-268); getgooglenews_by_category is called only past the early
\* return of line 262
FetchCategoryNews ==
    \E entries \in FeedEntries :
        LET category == session.selected_category
            fetched == IF category = "" THEN <<>>
                       ELSE getgooglenews_by_category(entries, category,
                                                      NumArticles)
        IN  /\ session' = fetchnews_for_categoryagent(session, fetched)
            /\ trace' = [trace EXCEPT
                            !.fetch = IF category = "" THEN "returned early"
                                      ELSE "fetched",
                            !.fetched = fetched]
            /\ UNCHANGED <<widgets, v1_vars>>

NextFetch == FetchCategoryNews

SpecFetch == InitFetch /\ [][NextFetch]_vars

\* the prompt of contentcreator_agent, lines 283-285: the title, and the
\* review feedback when there is one
creator_prompt(state) ==
    [title |-> state.selected_news.title, feedback |-> state.review_feedback]

\* the state of one run of main: the session, the page rendered so far, the
\* record of the run's calls, and whether an exception has ended the run
Run(s, w, t) ==
    [s |-> s,
     w |-> [w EXCEPT !.buttons = {"show"}, !.article_options = <<>>],
     t |-> [t EXCEPT !.creator_prompt = NoPrompt, !.reviewer_reply = NoReply,
                     !.fetch = "none", !.fetched = <<>>],
     aborted |-> FALSE,
     rerun |-> FALSE]

\* contentcreator_agent (lines 279-288) called through the content workflow,
\* and the assignments that follow the call (lines 381-385, 429-433)
GenerateContent(r, draft) ==
    IF r.s.selected_news = None
    THEN [r EXCEPT !.s.content_generated = TRUE,
                   !.s.feedback_generated = FALSE,
                   !.s.content_generation_count = @ + 1,
                   !.t.creator_invocations = @ + 1]
    ELSE IF draft = Raised
    THEN [r EXCEPT !.aborted = TRUE,
                   !.t.creator_invocations = @ + 1,
                   !.t.creator_prompt = creator_prompt(r.s)]
    ELSE [r EXCEPT !.s.content_draft = draft,
                   !.s.content_generated = TRUE,
                   !.s.feedback_generated = FALSE,
                   !.s.content_generation_count = @ + 1,
                   !.t.creator_calls = @ + 1,
                   !.t.creator_invocations = @ + 1,
                   !.t.creator_prompt = creator_prompt(r.s)]

\* lines 328-346: the category column and the "Show topics" button
CategoryColumn(r, clicked, fetched) ==
    IF clicked = "show"
    THEN [r EXCEPT !.s = fetchnews_for_categoryagent(
                             [r.s EXCEPT
                                 !.selected_category = r.w.category_radio,
                                 !.news_fetched = TRUE,
                                 !.content_generated = FALSE,
                                 !.feedback_generated = FALSE,
                                 !.content_generation_count = 0],
                             fetched),
                   !.t.creator_calls = 0,
                   !.t.creator_invocations = 0,
                   !.t.fetch = "fetched",
                   !.t.fetched = fetched]
    ELSE r

\* lines 354-389: the article column and the "Generate Content" button
ArticleColumn(r, clicked, draft) ==
    LET category_news == OfCategory(r.s.news_items, r.s.selected_category)
        titles == [i \in DOMAIN category_news |-> category_news[i].title]
        selected_title == IF r.w.article_radio \in Range(titles)
                          THEN r.w.article_radio ELSE titles[1]
        selected_news ==
            category_news[CHOOSE i \in DOMAIN category_news :
                             /\ category_news[i].title = selected_title
                             /\ \A j \in 1..(i - 1) :
                                   category_news[j].title # selected_title]
        shown == [r EXCEPT !.s.selected_news = selected_news,
                           !.w.article_radio = selected_title,
                           !.w.article_options = titles,
                           !.w.buttons = @ \cup {"generate"}]
    IN  IF r.aborted THEN r
        ELSE IF ~(r.s.news_fetched /\ r.s.selected_category # "") THEN r
        ELSE IF category_news = <<>> THEN r
        ELSE IF clicked = "generate" /\ r.s.content_generation_count < 3
        THEN GenerateContent(shown, draft)
        ELSE shown

\* contentreviewer_agent (lines 290-296) called through the review workflow,
\* and lines 404-410
ReviewContent(r, reply) ==
    LET reviewed == IF r.s.content_draft = "" THEN r.s.review_feedback
                    ELSE reply
    IN  IF r.s.content_draft # "" /\ reply = Raised
        THEN [r EXCEPT !.aborted = TRUE]
        ELSE [r EXCEPT
                !.s.review_feedback = reviewed,
                !.s.feedback_generated = TRUE,
                !.s.last_feedback = reviewed,
                !.s.feedback_satisfactory = (reviewed = r.s.last_feedback),
                !.t.reviewer_reply =
                    IF r.s.content_draft = "" THEN NoReply ELSE reply]

\* lines 411-413 left out
ForceLimit_skipped(r) == r

\* lines 411-413
ForceLimit(r) ==
    IF r.aborted \/ ~r.s.feedback_satisfactory THEN r
    ELSE [r EXCEPT !.s.feedback_generated = TRUE,
                   !.s.content_generation_count = 3]

\* lines 391-416: the draft and the "Get Feedback" button
DraftSection(r, clicked, reply) ==
    LET enabled == r.s.content_generation_count < 3
        shown == IF enabled
                 THEN [r EXCEPT !.w.buttons = @ \cup {"feedback"}]
                 ELSE r
    IN  IF r.aborted THEN r
        ELSE IF ~(r.s.content_generated /\ r.s.selected_news # None) THEN r
        ELSE IF ~r.s.feedback_generated /\ r.s.content_generation_count < 4
        THEN IF clicked = "feedback" /\ enabled
             THEN ForceLimit(ReviewContent(shown, reply))
             ELSE ForceLimit(shown)
        ELSE ForceLimit(r)

\* lines 418-436: the feedback and the "Regenerate" button
FeedbackSection(r, clicked, draft) ==
    LET shown == [r EXCEPT !.w.buttons = @ \cup {"regenerate"}]
        regenerated == GenerateContent(shown, draft)
    IN  IF r.aborted THEN r
        ELSE IF ~r.s.feedback_generated THEN r
        ELSE IF clicked = "regenerate" /\ r.s.content_generation_count < 3
        THEN IF regenerated.aborted THEN regenerated
             ELSE [regenerated EXCEPT !.rerun = TRUE]
        ELSE shown

\* one run of main, lines 297-436
Script(r, clicked, fetched, draft, reply) ==
    FeedbackSection(
        DraftSection(
            ArticleColumn(CategoryColumn(r, clicked, fetched), clicked, draft),
            clicked, reply),
        clicked, draft)

\* main for one user event; st.rerun() (line 436) runs it once more
\* without an event
main(s, w, t, clicked, fetched, draft, reply) ==
    LET first == Script(Run(s, w, t), clicked, fetched, draft, reply)
        again == Script([Run(first.s, first.w, first.t) EXCEPT !.t = first.t],
                        "none", <<>>, Raised, Raised)
    IN  IF first.rerun THEN again ELSE first

\* the session, the page and the trace after a run
Event(clicked, fetched, draft, reply, w) ==
    LET out == main(session, w, trace, clicked, fetched, draft, reply)
    IN  /\ session' = out.s
        /\ widgets' = out.w
        /\ trace' = out.t
        /\ UNCHANGED v1_vars

\* the user selects a category in the radio of line 325
SelectCategory ==
    \E c \in Categories :
        /\ c # widgets.category_radio
        /\ Event("none", <<>>, Raised, Raised,
                 [widgets EXCEPT !.category_radio = c])

\* the user selects an article in the radio of line 365
SelectArticle ==
    \E title \in Range(widgets.article_options) :
        /\ title # widgets.article_radio
        /\ Event("none", <<>>, Raised, Raised,
                 [widgets EXCEPT !.article_radio = title])

\* the user clicks "Show ... topics" (line 333)
ClickShowTopics ==
    /\ "show" \in widgets.buttons
    /\ \E fetched \in NewsFeeds(widgets.category_radio) :
          Event("show", fetched, Raised, Raised, widgets)

\* the user clicks "Generate Content for this article" (line 374)
ClickGenerate ==
    /\ "generate" \in widgets.buttons
    /\ \E draft \in CreatorReplies \cup {Raised} :
          /\ draft = Raised =>
                trace.creator_invocations - trace.creator_calls < MaxFailedCalls
          /\ Event("generate", <<>>, draft, Raised, widgets)

\* the user clicks "Get Feedback on this Content" (line 396)
ClickGetFeedback ==
    /\ "feedback" \in widgets.buttons
    /\ \E reply \in ReviewerReplies \cup {Raised} :
          Event("feedback", <<>>, Raised, reply, widgets)

\* the user clicks "Regenerate Content Based on Feedback" (line 422)
ClickRegenerate ==
    /\ "regenerate" \in widgets.buttons
    /\ \E draft \in CreatorReplies \cup {Raised} :
          /\ draft = Raised =>
                trace.creator_invocations - trace.creator_calls < MaxFailedCalls
          /\ Event("regenerate", <<>>, draft, Raised, widgets)

NextInteractive ==
    \/ SelectCategory
    \/ SelectArticle
    \/ ClickShowTopics
    \/ ClickGenerate
    \/ ClickGetFeedback
    \/ ClickRegenerate

SpecInteractive == Init /\ [][NextInteractive]_vars

----------------------------------------------------------------------------
(* Properties *)

\* C1: a run that returns through line 168 returns the content and the
\* overall score of the earliest attempt with the highest overall score of
\* the history.
C1_ReturnsBestOfHistory ==
    (pc = "returned" /\ Len(result) = 2) => result = top

\* C2: once the writer has repeated an earlier content in two consecutive
\* cycles (N and N+1), the loop has terminated: it does not go on to another
\* generation call.
C2_StuckLoopTerminates ==
    repeat_cycles >= 2 => ~(pc = "loop" /\ LoopCondition)

\* C3: the attempt history never holds more than max_attempts (3) entries.
C3_HistoryWithinBudget == Len(past_attempts) <= 3

C3_Witness ==
    pc = "decide" /\ attempt = 2 /\ Len(past_attempts) = 3

\* C4: when the loop is left at index 2 with an overall score of at least
\* 95, the budget-exhausted outcome ("Max attempts reached.") is not
\* reported.
C4_QualityMetNotBudgetExhausted ==
    [][(pc = "after_loop" /\ attempt = 2 /\ overall_score >= 285)
         => StToast \notin st_messages']_vars

\* C5: when the generator yields no content on the first attempt, the loop
\* returns an empty content and a zero score in the two-element shape of a
\* successful result, and main does not fail on it.
C5_FailedRunHasResultShape ==
    (StError \in st_messages /\ top = <<>>)
        => /\ pc = "returned" => (Len(result) = 2 /\ result[1] = ""
                                                  /\ result[2] = 0)
           /\ error.exc # "ValueError"

\* C6: when the generator yields no content at an attempt N > 0, what the
\* loop returns carries the best content (first element) and the best score
\* (last element) of the attempts 0..N-1.
C6_PartialStatePreserved ==
    [][(pc = "loop" /\ attempt > 0 /\ pc' = "returned")
         => /\ result'[1] = best_content
            /\ result'[Len(result')] = best_score]_vars

NonNumericReplies == { <<"N","/","A">> }

\* C7: a non-numeric rating reply does not abort the scoring: its dimension
\* gets 50, and the overall score is the mean of the three dimension values
\* (in thirds of a percent: their sum).
C7_NonNumericDefaultsTo50 ==
    pc = "decide" =>
        /\ score_replies[1] \in NonNumericReplies => relevance_score = 50
        /\ score_replies[2] \in NonNumericReplies => engagement_score = 50
        /\ score_replies[3] \in NonNumericReplies => ethics_score = 50
        /\ overall_score = relevance_score + engagement_score + ethics_score

C7_Witness ==
    /\ pc = "decide"
    /\ score_replies = << <<"1","0","0">>, <<"N","/","A">>, <<"1","0","0">> >>
    /\ engagement_score = 50
    /\ overall_score = 250

\* C8: every dimension score the loop uses lies in 0..100, and so does the
\* overall score (0..300 in thirds of a percent).
C8_ScoresInRange ==
    pc = "decide" =>
        /\ relevance_score \in 0..100
        /\ engagement_score \in 0..100
        /\ ethics_score \in 0..100
        /\ overall_score \in 0..300

\* C9: when the call to the Ethics reviewer fails while the report of an
\* attempt is built, the step ends in the stopping decision with a report
\* whose Ethics section is empty.
C9_EthicsFailureAbsorbed ==
    [][(pc = "eval" /\ error'.by = "ethics_reviewer")
         => (pc' = "decide" /\ feedback'.kind = "report"
                            /\ feedback'.ethics_feedback = "")]_vars

\* C10: when every attempt produces new content and scores below 95, the
\* decision after attempts 0 and 1 is to continue, the loop ends after
\* attempt 2 with exactly 3 attempts, and it returns the best of the three.
C10_BudgetExhaustedReturnsBest ==
    [][/\ (pc = "decide" /\ attempt < 2 /\ overall_score < 285)
            => (pc' = "loop" /\ attempt' = attempt + 1)
       /\ (pc = "decide" /\ attempt = 2 /\ overall_score < 285)
            => (pc' = "loop" /\ ~LoopCondition')
       /\ (pc = "after_loop" /\ overall_score < 285
                             /\ StWarning \notin st_messages)
            => /\ Len(past_attempts) = 3
               /\ pc' = "returned"
               /\ result' = top]_vars

\* C11: once an attempt's overall score is at least 95 the loop ends with
\* that attempt: the decision leaves the loop, the run returns that attempt's
\* content and score, and no further cycle or oracle call follows.
C11_QualityMetStops ==
    [][/\ (pc = "decide" /\ overall_score >= 285)
            => (pc' = "after_loop" /\ UNCHANGED <<rating_calls, review_calls>>)
       /\ (pc = "after_loop" /\ overall_score >= 285)
            => (pc' = "returned" /\ result' = <<content, overall_score>>)
       /\ pc \in {"after_loop", "returned", "done"}
            => /\ pc' \notin {"loop", "eval", "decide"}
               /\ UNCHANGED <<rating_calls, review_calls, cycle_index>>]_vars

C11_Witness ==
    pc = "returned" /\ result = <<"B", 285>> /\ rating_calls = 12

\* C12: the dimension scores and the overall score written into the report
\* of an attempt are the values the loop decides on for that attempt.
C12_ReportScoresAreLoopScores ==
    (pc = "decide" /\ feedback.kind = "report")
        => /\ feedback.relevance_score = relevance_score
           /\ feedback.engagement_score = engagement_score
           /\ feedback.ethics_score = ethics_score
           /\ feedback.overall_score = overall_score

\* C13: the evaluation of one attempt issues exactly 3 rating calls (one per
\* dimension), and a generation call is issued only for an index for which
\* none was issued before.
C13_OneCallPerDimensionAndAttempt ==
    [][/\ (pc = "eval" /\ pc' = "decide") => rating_calls' = rating_calls + 3
       /\ (pc = "loop" /\ LoopCondition) => cycle_index # attempt]_vars

\* C14: the generation prompt of attempt 0 is built from the topic alone;
\* the prompt of a generation call with index N > 0 holds the content of
\* attempt N-1 and the report built for attempt N-1.
C14_PromptCarriesPreviousAttempt ==
    (pc = "loop" /\ LoopCondition)
        => IF attempt = 0
           THEN generation_prompt = [kind |-> "write", topic |-> Topic]
           ELSE /\ generation_prompt.kind = "refine"
                /\ generation_prompt.content = past_attempts[attempt]
                /\ generation_prompt.feedback.kind = "report"
                /\ feedback_attempt = attempt - 1

\* C15: an attempt with index >= 2 gets the fixed marker as its report and
\* issues no reviewer call and no rating call for a report; an attempt with
\* index < 2 gets a real report; the marker never enters a generation prompt.
C15_FinalMarkerOnlyForLastAttempt ==
    [][/\ (pc = "eval" /\ pc' = "decide")
            => IF attempt >= 2
               THEN /\ feedback' = FinalMarker
                    /\ review_calls' = review_calls
                    /\ rating_calls' = rating_calls + 3
               ELSE feedback'.kind = "report"
       /\ (pc = "loop" /\ LoopCondition /\ attempt > 0)
            => generation_prompt.feedback.kind = "report"]_vars

C15_Witness ==
    /\ pc = "decide" /\ attempt = 2 /\ feedback = FinalMarker
    /\ Len(review_calls) = 4

\* C16: while the loop runs the best score never decreases, and after the
\* update that follows a scoring it is at least the score just computed and
\* at least every overall score of the run so far.
C16_BestScoreMonotone ==
    [][/\ pc' \notin {"returned", "raised"} => best_score' >= best_score
       /\ pc = "decide"
            => (best_score' >= overall_score /\ best_score' >= top[2])]_vars

C16_Witness ==
    pc = "loop" /\ attempt = 2 /\ overall_score < best_score
                /\ best_content = "A"

\* C17: every cycle that begins carries an index one greater than the cycle
\* before it (the first one carries 0).
C17_CycleIndexGapless ==
    (pc = "loop" /\ LoopCondition) => attempt = cycle_index + 1

\* C18: a call of get_feedback that builds a report calls the SEO reviewer
\* and then the Ethics reviewer, each once, each with the attempt's content.
C18_ReviewersInFixedOrder ==
    [][(pc = "eval" /\ pc' = "decide" /\ feedback'.kind = "report")
         => review_calls' = review_calls \o << <<"seo_reviewer", content>>,
                                               <<"ethics_reviewer", content>> >>
      ]_vars

C18_Witness ==
    /\ pc = "decide" /\ attempt = 1
    /\ review_calls = << <<"seo_reviewer", "A">>, <<"ethics_reviewer", "A">>,
                         <<"seo_reviewer", "B">>, <<"ethics_reviewer", "B">> >>

\* C19 (interactive variant): when the feedback the reviewer returns in a
\* run equals the last recorded feedback, the run ends with the feedback
\* marked satisfactory and the generation counter at 3; when it differs,
\* last_feedback takes it and the flag is false; and with the counter at 3
\* a run obtains no draft from the creator.
C19_IdenticalFeedbackIsSatisfactory ==
    [][/\ (trace'.reviewer_reply # NoReply
              /\ trace'.reviewer_reply = session.last_feedback)
            => /\ session'.feedback_satisfactory
               /\ session'.feedback_generated
               /\ session'.content_generation_count = 3
       /\ (trace'.reviewer_reply # NoReply
              /\ trace'.reviewer_reply # session.last_feedback)
            => /\ session'.last_feedback = trace'.reviewer_reply
               /\ ~session'.feedback_satisfactory
       /\ session.content_generation_count = 3
            => /\ trace'.creator_prompt = NoPrompt
               /\ session'.content_draft = session.content_draft]_vars

C19_Witness ==
    /\ trace.reviewer_reply = "feedback1"
    /\ session.feedback_satisfactory
    /\ session.content_generation_count = 3
    /\ trace.creator_calls = 2

\* C20: the history never holds a content twice, and a cycle whose generated
\* content is already in the history goes back to the loop head without a
\* rating or reviewer call and leaves the history, the best content and the
\* best score as they were.
C20_RepeatedContentNotRecorded ==
    [][/\ \A i, j \in DOMAIN past_attempts' :
            i # j => past_attempts'[i] # past_attempts'[j]
       /\ (pc = "loop" /\ LoopCondition /\ content' \in Range(past_attempts))
            => /\ pc' = "loop"
               /\ UNCHANGED <<past_attempts, best_content, best_score,
                              rating_calls, review_calls>>]_vars

C20_Witness ==
    /\ pc = "loop" /\ attempt = 2 /\ repeat_cycles = 1 /\ content = "A"
    /\ past_attempts = <<"A", "B">>

\* C21 (interactive variant): content_generation_count stays within 0..3,
\* and between two consecutive "Show topics" clicks contentcreator_agent is
\* invoked at most 3 times.
C21_AtMostThreeInvocations ==
    /\ session.content_generation_count \in 0..3
    /\ trace.creator_invocations <= 3

\* C22 (interactive variant): "Show topics" fully resets the generation
\* budget, whatever happened before it: the first draft generated after the
\* click uses one of the three generations and leaves two.
C22_ShowTopicsResetsBudget ==
    [][(session.content_generation_count = 0
           /\ trace'.creator_calls = trace.creator_calls + 1)
         => session'.content_generation_count = 1]_vars

\* C23 (interactive variant): the first call of the creator after a
\* "Show topics" click is issued with the plain prompt of the article: it
\* carries no review feedback.
C23_FirstPromptIsPlain ==
    [][(trace.creator_invocations = 0
           /\ trace'.creator_invocations > 0)
         => /\ trace'.creator_prompt.title = session'.selected_news.title
            /\ trace'.creator_prompt.feedback = ""]_vars

\* C24: fetchnews_for_categoryagent leaves the stored items of the other
\* categories unchanged and in order, leaves as the items of the selected
\* category exactly the newly fetched ones, at most 5, changes nothing else,
\* and leaves the state unchanged when no category is selected.
C24_FetchReplacesSelectedCategoryOnly ==
    [][LET category == session.selected_category
           Other(item) == item.category # category
           Selected(item) == item.category = category
       IN  IF category = ""
           THEN session' = session
           ELSE /\ SelectSeq(session'.news_items, Other)
                     = SelectSeq(session.news_items, Other)
                /\ SelectSeq(session'.news_items, Selected) = trace'.fetched
                /\ Len(SelectSeq(session'.news_items, Selected)) <= 5
                /\ session' = [session EXCEPT
                                  !.news_items = session'.news_items]]_vars

C24_Witness ==
    /\ trace.fetch = "fetched"
    /\ Len(trace.fetched) = 5
    /\ Len(session.news_items) = 8
    /\ session.news_items[1].category # session.selected_category

C24_WitnessNoCategory ==
    /\ trace.fetch = "returned early"
    /\ session = InitSession

====
